---- MODULE Spec2Model ----
(***************************************************************************)
(* Model of src/notifier.py: the daily agenda notifier.                    *)
(*                                                                         *)
(* notify_user_calendar validates the environment, asks the identity       *)
(* provider for a token, queries the calendar, renders the digest and      *)
(* sends it; notify (POST /notify) and scheduled_job are its two callers.  *)
(*                                                                         *)
(* Python values are modelled as follows.  A str is a TLA+ string; None    *)
(* where a str is expected (os.getenv) is an absent key of the function    *)
(* env.  A decoded JSON value is a tagged record: [t |-> "null"],          *)
(* [t |-> "str", v |-> s], [t |-> "list", v |-> seq] or                    *)
(* [t |-> "obj", v |-> f], f a function whose DOMAIN is the set of keys    *)
(* present.  The query window (lines 71-75, 82-84) depends on the clock    *)
(* only and is not modelled.  Invocations are modelled one at a time: the  *)
(* module keeps no mutable state between or across invocations.            *)
(***************************************************************************)
EXTENDS Integers, Sequences, FiniteSets, TLC

(***************************************************************************)
(* Bounds                                                                  *)
(***************************************************************************)
MaxEvents == 2

(***************************************************************************)
(* Strings                                                                 *)
(***************************************************************************)
Digits == {"0", "1", "2", "3", "4", "5", "6", "7", "8", "9"}
DigitStr == <<"0", "1", "2", "3", "4", "5", "6", "7", "8", "9">>

CharAt(s, i) == SubSeq(s, i, i)

DigitVal(c) == CHOOSE n \in 0..9 : DigitStr[n + 1] = c

\* int(s) for a string of decimal digits, leading blanks ignored
RECURSIVE ToInt(_)
ToInt(s) ==
    IF Len(s) = 0 THEN 0
    ELSE LET c == CharAt(s, Len(s))
             rest == ToInt(SubSeq(s, 1, Len(s) - 1))
         IN IF c = " " THEN rest ELSE 10 * rest + DigitVal(c)

IsDigits(s) == \A i \in 1..Len(s) : CharAt(s, i) \in Digits

\* "%02d" and "%04d"
Pad2(n) == DigitStr[((n \div 10) % 10) + 1] \o DigitStr[(n % 10) + 1]
Pad4(n) == Pad2(n \div 100) \o Pad2(n % 100)

\* str.find(c) as a 1-based position, 0 when absent
IndexOf(s, c) ==
    IF \E i \in 1..Len(s) : CharAt(s, i) = c
    THEN CHOOSE i \in 1..Len(s) :
            CharAt(s, i) = c /\ \A j \in 1..(i - 1) : CharAt(s, j) # c
    ELSE 0

\* s.replace("Z", "+00:00")
RECURSIVE ReplaceZ(_)
ReplaceZ(s) ==
    IF Len(s) = 0 THEN ""
    ELSE (IF CharAt(s, 1) = "Z" THEN "+00:00" ELSE CharAt(s, 1))
            \o ReplaceZ(SubSeq(s, 2, Len(s)))

\* sep.join(lines)
RECURSIVE Join(_, _)
Join(lines, sep) ==
    IF Len(lines) = 0 THEN ""
    ELSE IF Len(lines) = 1 THEN lines[1]
    ELSE lines[1] \o sep \o Join(Tail(lines), sep)

(***************************************************************************)
(* datetime.strptime.  A format is compiled to a regular expression, a     *)
(* sequence of elements; an element is an ordered sequence of              *)
(* alternatives and an alternative a sequence of character sets.  The      *)
(* match is the first one in backtracking order, as re.match finds it.     *)
(***************************************************************************)
D09 == Digits
D19 == Digits \ {"0"}
Lit(c) == << << {c} >> >>

ReYear   == << <<D09, D09, D09, D09>> >>
ReMonth  == << <<{"1"}, {"0", "1", "2"}>>, <<{"0"}, D19>>, <<D19>> >>
ReDay    == << <<{"3"}, {"0", "1"}>>, <<{"1", "2"}, D09>>, <<{"0"}, D19>>,
               <<D19>>, <<{" "}, D19>> >>
ReHour   == << <<{"2"}, {"0", "1", "2", "3"}>>, <<{"0", "1"}, D09>>, <<D09>> >>
ReMinute == << <<{"0", "1", "2", "3", "4", "5"}, D09>>, <<D09>> >>
ReSecond == << <<{"6"}, {"0", "1"}>>,
               <<{"0", "1", "2", "3", "4", "5"}, D09>>, <<D09>> >>
ReFrac   == << <<D09, D09, D09, D09, D09, D09>>, <<D09, D09, D09, D09, D09>>,
               <<D09, D09, D09, D09>>, <<D09, D09, D09>>, <<D09, D09>>,
               <<D09>> >>
\* the expression is compiled with re.IGNORECASE
ReT      == << << {"T", "t"} >> >>

FmtSeconds == <<ReYear, Lit("-"), ReMonth, Lit("-"), ReDay, ReT,
                ReHour, Lit(":"), ReMinute, Lit(":"), ReSecond>>
FmtFrac    == FmtSeconds \o <<Lit("."), ReFrac>>
FmtFrac0   == FmtFrac \o <<Lit("0")>>

\* the tuple of line 104, in the order tried
Formats == <<FmtFrac0, FmtFrac, FmtSeconds>>

NoMatch == [ok |-> FALSE, caps |-> <<>>, end |-> 0]

MatchesAlt(s, pos, alt) ==
    /\ pos + Len(alt) - 1 <= Len(s)
    /\ \A i \in 1..Len(alt) : CharAt(s, pos + i - 1) \in alt[i]

RECURSIVE ReMatch(_, _, _, _)
RECURSIVE TryAlts(_, _, _, _, _)
ReMatch(s, pat, k, pos) ==
    IF k > Len(pat) THEN [ok |-> TRUE, caps |-> <<>>, end |-> pos]
    ELSE TryAlts(s, pat, k, pos, 1)

TryAlts(s, pat, k, pos, a) ==
    IF a > Len(pat[k]) THEN NoMatch
    ELSE LET alt == pat[k][a]
         IN IF MatchesAlt(s, pos, alt)
            THEN LET r == ReMatch(s, pat, k + 1, pos + Len(alt))
                 IN IF r.ok
                    THEN [ok |-> TRUE,
                          caps |-> <<SubSeq(s, pos, pos + Len(alt) - 1)>> \o r.caps,
                          end |-> r.end]
                    ELSE TryAlts(s, pat, k, pos, a + 1)
            ELSE TryAlts(s, pat, k, pos, a + 1)

IsLeap(y) == (y % 4 = 0 /\ y % 100 # 0) \/ y % 400 = 0

DaysInMonth(y, m) ==
    IF m = 2 THEN (IF IsLeap(y) THEN 29 ELSE 28)
    ELSE IF m \in {4, 6, 9, 11} THEN 30 ELSE 31

\* the range checks of the datetime constructor
ValidDateTime(dt) ==
    /\ dt.Y \in 1..9999
    /\ dt.m \in 1..12
    /\ dt.d \in 1..DaysInMonth(dt.Y, dt.m)
    /\ dt.H \in 0..23
    /\ dt.M \in 0..59
    /\ dt.S \in 0..59

\* the value of a failed parse (dt_obj = None)
NoDate == [ok |-> FALSE, Y |-> 0, m |-> 0, d |-> 0, H |-> 0, M |-> 0, S |-> 0]

MkDate(Y, m, d, H, M, S) ==
    LET dt == [ok |-> TRUE, Y |-> Y, m |-> m, d |-> d, H |-> H, M |-> M, S |-> S]
    IN IF ValidDateTime(dt) THEN dt ELSE NoDate

\* datetime.strptime(s, fmt); NoDate stands for the ValueError
strptime(s, fmt) ==
    LET r == ReMatch(s, fmt, 1, 1)
    IN IF ~r.ok \/ r.end # Len(s) + 1 THEN NoDate
       ELSE MkDate(ToInt(r.caps[1]), ToInt(r.caps[3]), ToInt(r.caps[5]),
                   ToInt(r.caps[7]), ToInt(r.caps[9]), ToInt(r.caps[11]))

(***************************************************************************)
(* datetime.fromisoformat, the grammar every CPython from 3.7 on accepts:  *)
(* YYYY-MM-DD[*HH[:MM[:SS[.fff[fff]]]][(+|-)HH:MM[:SS[.ffffff]]]]          *)
(***************************************************************************)
NoTime == [ok |-> FALSE, H |-> 0, M |-> 0, S |-> 0]

\* HH[:MM[:SS[.fff[fff]]]]
ParseHMS(t) ==
    LET n == Len(t)
        two(i) == IsDigits(SubSeq(t, i, i + 1))
        val(i) == ToInt(SubSeq(t, i, i + 1))
    IN IF n = 2 /\ two(1) THEN [ok |-> TRUE, H |-> val(1), M |-> 0, S |-> 0]
       ELSE IF n = 5 /\ two(1) /\ CharAt(t, 3) = ":" /\ two(4)
            THEN [ok |-> TRUE, H |-> val(1), M |-> val(4), S |-> 0]
       ELSE IF /\ n \in {8, 12, 15}
               /\ two(1) /\ CharAt(t, 3) = ":" /\ two(4)
               /\ CharAt(t, 6) = ":" /\ two(7)
               /\ n > 8 => (CharAt(t, 9) = "." /\ IsDigits(SubSeq(t, 10, n)))
            THEN [ok |-> TRUE, H |-> val(1), M |-> val(4), S |-> val(7)]
       ELSE NoTime

\* the UTC offset: HH:MM[:SS[.ffffff]], strictly less than a day
ValidOffset(z) ==
    /\ Len(z) \in {5, 8, 15}
    /\ ParseHMS(z).ok
    /\ ParseHMS(z).H < 24 /\ ParseHMS(z).M < 60 /\ ParseHMS(z).S < 60

\* position of the first "+" or "-" of the time part, 0 when there is none
OffsetPos(t) ==
    LET p == IndexOf(t, "+")
        q == IndexOf(t, "-")
    IN IF p = 0 THEN q ELSE IF q = 0 THEN p ELSE IF p < q THEN p ELSE q

\* datetime.fromisoformat(s).replace(tzinfo=None); NoDate for the ValueError
fromisoformat(s) ==
    IF \/ Len(s) < 10
       \/ ~IsDigits(SubSeq(s, 1, 4)) \/ CharAt(s, 5) # "-"
       \/ ~IsDigits(SubSeq(s, 6, 7)) \/ CharAt(s, 8) # "-"
       \/ ~IsDigits(SubSeq(s, 9, 10))
    THEN NoDate
    ELSE LET Y == ToInt(SubSeq(s, 1, 4))
             m == ToInt(SubSeq(s, 6, 7))
             d == ToInt(SubSeq(s, 9, 10))
         IN IF Len(s) = 10 THEN MkDate(Y, m, d, 0, 0, 0)
            ELSE LET t == SubSeq(s, 12, Len(s))
                     p == OffsetPos(t)
                     hms == ParseHMS(IF p = 0 THEN t ELSE SubSeq(t, 1, p - 1))
                 IN IF ~hms.ok THEN NoDate
                    ELSE IF p # 0 /\ ~ValidOffset(SubSeq(t, p + 1, Len(t)))
                         THEN NoDate
                    ELSE MkDate(Y, m, d, hms.H, hms.M, hms.S)

(***************************************************************************)
(* Lines 103-115: the three formats in turn, then fromisoformat.  A        *)
(* start_raw that is not a str makes every attempt raise, and every        *)
(* attempt's exception is caught.                                          *)
(***************************************************************************)
RECURSIVE TryFormats(_, _)
TryFormats(s, i) ==
    IF i > Len(Formats) THEN NoDate
    ELSE IF strptime(s, Formats[i]).ok THEN strptime(s, Formats[i])
    ELSE TryFormats(s, i + 1)

ParseStart(start_raw) ==
    IF start_raw.t # "str" THEN NoDate
    ELSE IF TryFormats(start_raw.v, 1).ok THEN TryFormats(start_raw.v, 1)
    ELSE fromisoformat(ReplaceZ(start_raw.v))

(***************************************************************************)
(* Lines 119-121: UTC to Asia/Kolkata, which is UTC+05:30 "IST" for every  *)
(* instant since 1945-10-15; earlier instants are outside the model.       *)
(* ok = FALSE is the OverflowError of a result past year 9999.             *)
(***************************************************************************)
IstOffsetMinutes == 330

ToIST(dt) ==
    LET mins == dt.H * 60 + dt.M + IstOffsetMinutes
        roll == mins >= 24 * 60
        hm   == IF roll THEN mins - 24 * 60 ELSE mins
        endM == roll /\ dt.d = DaysInMonth(dt.Y, dt.m)
        endY == endM /\ dt.m = 12
        d2   == IF ~roll THEN dt.d ELSE IF endM THEN 1 ELSE dt.d + 1
        m2   == IF ~endM THEN dt.m ELSE IF endY THEN 1 ELSE dt.m + 1
        Y2   == IF endY THEN dt.Y + 1 ELSE dt.Y
    IN [ok |-> Y2 <= 9999, Y |-> Y2, m |-> m2, d |-> d2,
        H |-> hm \div 60, M |-> hm % 60, S |-> dt.S]

\* strftime("%Y-%m-%d %H:%M:%S %Z")
FormatIST(dt) ==
    Pad4(dt.Y) \o "-" \o Pad2(dt.m) \o "-" \o Pad2(dt.d) \o " "
        \o Pad2(dt.H) \o ":" \o Pad2(dt.M) \o ":" \o Pad2(dt.S) \o " IST"


(***************************************************************************)
(* JSON values and the Python operations the code applies to them          *)
(***************************************************************************)
Null == [t |-> "null"]
Str(s) == [t |-> "str", v |-> s]
List(q) == [t |-> "list", v |-> q]
Obj(f) == [t |-> "obj", v |-> f]
EmptyObj == Obj([k \in {} |-> Null])
\* a body resp.json() cannot decode
Undecodable == [t |-> "undecodable"]

\* d.get(key, default) on a dict d
Get(d, key, default) == IF key \in DOMAIN d.v THEN d.v[key] ELSE default

\* "j is not None" in place of bool(j)
Truthy_NotNone(j) == j.t # "null"

\* bool(j)
Truthy(j) ==
    CASE j.t = "null" -> FALSE
      [] j.t = "str"  -> j.v # ""
      [] j.t = "list" -> Len(j.v) > 0
      [] j.t = "obj"  -> DOMAIN j.v # {}

\* str(j) inside an f-string, for the value types the inputs contain
PyStr(j) == IF j.t = "str" THEN j.v ELSE "None"

(***************************************************************************)
(* Lines 97-126: one event to one line.  ok = FALSE is an exception that   *)
(* leaves the loop; exc names it.                                          *)
(***************************************************************************)
Raised(exc) == [ok |-> FALSE, line |-> "", exc |-> exc]

\* lines 118-123 with the raw string dropped on a failed parse
StartStr_NoRaw(start_raw, dt_obj) ==
    IF dt_obj.ok THEN FormatIST(ToIST(dt_obj)) ELSE "Unknown time"

\* lines 118-123
StartStr(start_raw, dt_obj) ==
    IF dt_obj.ok THEN FormatIST(ToIST(dt_obj))
    ELSE IF Truthy(start_raw) THEN PyStr(start_raw)
    ELSE "Unknown time"

RenderEvent(event) ==
    IF event.t # "obj" THEN Raised("AttributeError")
    ELSE
    LET subject == Get(event, "subject", Str("(No subject)"))
        start   == Get(event, "start", EmptyObj)
    IN IF start.t # "obj" THEN Raised("AttributeError")
       ELSE
       LET start_raw == Get(start, "dateTime", Null)
           dt_obj    == ParseStart(start_raw)
           rs        == Get(event, "responseStatus", EmptyObj)
       IN IF dt_obj.ok /\ ~ToIST(dt_obj).ok THEN Raised("OverflowError")
          ELSE IF rs.t # "obj" THEN Raised("AttributeError")
          ELSE
          LET start_str == StartStr(start_raw, dt_obj)
              status == Get(rs, "response", Str("Unknown"))
          IN [ok |-> TRUE,
              line |-> PyStr(subject) \o " at " \o start_str
                          \o " - Status: " \o PyStr(status),
              exc |-> ""]

\* the loop of line 97 over a list of events
RECURSIVE RenderAll(_)
RenderAll(events) ==
    IF Len(events) = 0 THEN [ok |-> TRUE, lines |-> <<>>, exc |-> ""]
    ELSE LET r == RenderEvent(Head(events))
         IN IF ~r.ok THEN [ok |-> FALSE, lines |-> <<>>, exc |-> r.exc]
            ELSE LET rest == RenderAll(Tail(events))
                 IN IF ~rest.ok THEN rest
                    ELSE [ok |-> TRUE, lines |-> <<r.line>> \o rest.lines,
                          exc |-> ""]

\* lines 95-126 on the decoded body
RenderData(d) ==
    IF d.t # "obj" THEN [ok |-> FALSE, lines |-> <<>>, exc |-> "AttributeError"]
    ELSE LET events == Get(d, "value", List(<<>>))
         IN CASE events.t = "list" -> RenderAll(events.v)
              [] events.t = "null" ->
                    [ok |-> FALSE, lines |-> <<>>, exc |-> "TypeError"]
              [] OTHER ->
                    IF Truthy(events)
                    THEN [ok |-> FALSE, lines |-> <<>>, exc |-> "AttributeError"]
                    ELSE [ok |-> TRUE, lines |-> <<>>, exc |-> ""]

\* lines 128-131
Header == "Today's scheduled meetings:\n"
NoMeetings == "No meetings scheduled for today."

\* lines 128-131 with the test off by one
MakeBody_OffByOne(lines) ==
    IF Len(lines) > 1 THEN Header \o Join(lines, "\n") ELSE NoMeetings

MakeBody(lines) ==
    IF Len(lines) > 0 THEN Header \o Join(lines, "\n") ELSE NoMeetings

(***************************************************************************)
(* Inputs: the environment, the requests and what the collaborators answer *)
(***************************************************************************)
\* the dict of lines 41-45, in insertion order
Required == <<"TENANT_ID", "CLIENT_ID", "CLIENT_SECRET", "TWILIO_SID",
              "TWILIO_TOKEN", "TWILIO_FROM", "TWILIO_TO">>
RequiredNames == {Required[i] : i \in 1..Len(Required)}
EnvNames == RequiredNames \cup {"SCOPE", "DEFAULT_USER_EMAIL"}

EnvValue ==
    [k \in EnvNames |->
        CASE k = "TENANT_ID"          -> "contoso"
          [] k = "CLIENT_ID"          -> "app-1"
          [] k = "CLIENT_SECRET"      -> "s3cret"
          [] k = "TWILIO_SID"         -> "AC1"
          [] k = "TWILIO_TOKEN"       -> "tw-token"
          [] k = "TWILIO_FROM"        -> "whatsapp:+14155238886"
          [] k = "TWILIO_TO"          -> "whatsapp:+910000000000"
          [] k = "SCOPE"              -> "api://custom/.default"
          [] k = "DEFAULT_USER_EMAIL" -> "boss@example.com"]

\* at most MaxUnset of the required variables are absent or empty
MaxUnset == 2

Envs ==
    {[k \in EnvNames \ A |-> IF k \in U THEN "" ELSE EnvValue[k]] :
        <<U, A>> \in {p \in (SUBSET EnvNames) \X (SUBSET EnvNames) :
                        /\ p[2] \subseteq p[1]
                        /\ "SCOPE" \notin p[1] \ p[2]
                        /\ Cardinality(p[1] \cap RequiredNames) <= MaxUnset}}

\* bodies of POST /notify that pass the NotifyRequest validation
RequestEmails == {"", "user@example.com"}

\* what the token endpoint answers
TokenStatuses == {200, 401}
TokenBodies ==
    {Undecodable, Null, EmptyObj,
     Obj([k \in {"access_token"} |-> Str("")]),
     Obj([k \in {"access_token"} |-> Null]),
     Obj([k \in {"access_token"} |-> Str("tok-1")])}

\* what the calendar endpoint answers
CalendarStatuses == {200, 400, 503, 600}

Ev(subject, dateTime, response) ==
    Obj([k \in {"subject", "start", "responseStatus"} |->
            CASE k = "subject" -> Str(subject)
              [] k = "start" -> Obj([j \in {"dateTime"} |-> dateTime])
              [] k = "responseStatus" -> Obj([j \in {"response"} |-> Str(response)])])

EventSamples ==
    {Ev("Standup", Str("2024-01-10T09:00:00.0000000"), "accepted"),
     Ev("Review", Str("2024-12-31T18:30:00.5"), "none"),
     Ev("Retro", Str("2024-02-28T20:15:07"), "declined"),
     Ev("Sync", Str("2024-01-10T09:00:00Z"), "tentativelyAccepted"),
     Ev("Lunch", Str("tomorrow"), "organizer"),
     Ev("Hold", Str(""), "notResponded"),
     EmptyObj,
     Obj([k \in {"subject", "start"} |->
            IF k = "subject" THEN Str("Broken") ELSE Null])}

EventLists == UNION {[1..n -> EventSamples] : n \in 0..MaxEvents}

CalendarBodies ==
    {Undecodable, Null, EmptyObj, Obj([k \in {"value"} |-> Null])}
        \cup {Obj([k \in {"value"} |-> List(q)]) : q \in EventLists}

\* the sid of the message the provider created
MessageSids == {"SM1"}

(***************************************************************************)
(* State                                                                   *)
(***************************************************************************)
VARIABLES
    env,           \* os.environ after load_dotenv
    scheduler,     \* "created", "running" or "shutdown"
    pc,            \* where the invocation in progress stands; "idle" if none
    caller,        \* "notify" or "scheduled_job"
    user_email,    \* argument of notify_user_calendar
    token_resp,    \* local: the answer of the token endpoint
    token_json,    \* local
    access_token,  \* local
    resp,          \* local: the answer of the calendar endpoint
    data,          \* local: the decoded calendar body
    event_list,    \* local
    body,          \* local
    calls,         \* requests sent to the collaborators by this invocation
    result,        \* value notify_user_calendar returned
    error,         \* exception notify_user_calendar raised
    response,      \* how the caller (notify, scheduled_job) ended
    log            \* records the invocation logged

vars == <<env, scheduler, pc, caller, user_email, token_resp, token_json,
          access_token, resp, data, event_list, body, calls, result, error,
          response, log>>

locals == <<token_resp, token_json, access_token, resp, data, event_list, body>>

Unset == [t |-> "unset"]
\* an answer: its status_code and whether json() can decode its body; the
\* decoded body itself is kept in token_json and data
Response(status, json) ==
    [status_code |-> status, decodable |-> json.t # "undecodable"]
NoAnswer == [status_code |-> 0, decodable |-> FALSE]
NoResult == [message |-> "", sid |-> "", events |-> <<>>]
NoError == [exc |-> "", msg |-> "", at |-> ""]
NoResponse == [kind |-> "none", result |-> NoResult, error |-> NoError]

Call(endpoint, url, cred, payload) ==
    [endpoint |-> endpoint, url |-> url, cred |-> cred, payload |-> payload]

\* "os.getenv(k) is not None" in place of truthiness
IsSet_NotNone(k) == k \in DOMAIN env

\* os.getenv(k) is truthy
IsSet(k) == k \in DOMAIN env /\ env[k] # ""

\* os.getenv(k, default)
Getenv(k, default) == IF k \in DOMAIN env THEN env[k] ELSE default

Init ==
    /\ env \in Envs
    /\ scheduler = "created"
    /\ pc = "idle"
    /\ caller = ""
    /\ user_email = ""
    /\ token_resp = NoAnswer
    /\ token_json = Unset
    /\ access_token = ""
    /\ resp = NoAnswer
    /\ data = Unset
    /\ event_list = <<>>
    /\ body = ""
    /\ calls = <<>>
    /\ result = NoResult
    /\ error = NoError
    /\ response = NoResponse
    /\ log = <<>>

\* the state in which an invocation of notify_user_calendar(email) starts
Begin(who, email) ==
    /\ pc' = "validate"
    /\ caller' = who
    /\ user_email' = email
    /\ token_resp' = NoAnswer
    /\ token_json' = Unset
    /\ access_token' = ""
    /\ resp' = NoAnswer
    /\ data' = Unset
    /\ event_list' = <<>>
    /\ body' = ""
    /\ calls' = <<>>
    /\ result' = NoResult
    /\ error' = NoError
    /\ response' = NoResponse
    /\ log' = <<>>

\* raise exc(msg) out of notify_user_calendar at step pc
Raise(exc, msg) ==
    /\ error' = [exc |-> exc, msg |-> msg, at |-> pc]
    /\ pc' = "raised"

(***************************************************************************)
(* start_scheduler, shutdown_scheduler                                     *)
(***************************************************************************)
start_scheduler ==
    /\ scheduler = "created"
    /\ scheduler' = "running"
    /\ UNCHANGED <<env, pc, caller, user_email, locals, calls, result, error,
                   response, log>>

\* the server runs the shutdown handlers once the requests in progress are
\* answered; a scheduled job in progress is not waited for (wait=False)
shutdown_scheduler ==
    /\ scheduler = "running"
    /\ pc = "idle" \/ caller = "scheduled_job"
    /\ scheduler' = "shutdown"
    /\ UNCHANGED <<env, pc, caller, user_email, locals, calls, result, error,
                   response, log>>

(***************************************************************************)
(* notify_user_calendar, one action per stretch between two requests       *)
(***************************************************************************)
\* str(n) for a natural number
RECURSIVE IntStr(_)
IntStr(n) == IF n < 10 THEN DigitStr[n + 1]
             ELSE IntStr(n \div 10) \o DigitStr[(n % 10) + 1]

\* line 46 with "v is None" in place of "not v"
Missing_OnlyNone == SelectSeq(Required, LAMBDA k : k \notin DOMAIN env)

\* line 46: the names whose value is falsy, in the order of the dict
Missing == SelectSeq(Required, LAMBDA k : ~IsSet(k))

\* lines 30-48
ValidateEnv ==
    /\ pc = "validate"
    /\ IF Len(Missing) > 0
       THEN Raise("RuntimeError",
                  "Missing environment variables: " \o Join(Missing, ", "))
       ELSE pc' = "token" /\ error' = error
    /\ UNCHANGED <<env, scheduler, caller, user_email, locals, calls, result,
                   response, log>>

\* lines 59-63 and 86-90 without the fallback to an empty dict
Decoded_NoFallback(status, json) ==
    IF json.t # "undecodable" THEN [ok |-> TRUE, json |-> json]
    ELSE [ok |-> FALSE, json |-> Null]

\* resp.json() with the fallback of lines 59-63 and 86-90:
\* raise_for_status raises for 400 <= status < 600
Decoded(status, json) ==
    IF json.t # "undecodable" THEN [ok |-> TRUE, json |-> json]
    ELSE IF status >= 400 /\ status < 600 THEN [ok |-> FALSE, json |-> Null]
    ELSE [ok |-> TRUE, json |-> EmptyObj]

TokenCall ==
    Call("token",
         "https://login.microsoftonline.com/" \o env["TENANT_ID"]
            \o "/oauth2/v2.0/token",
         env["CLIENT_ID"] \o ":" \o env["CLIENT_SECRET"],
         Getenv("SCOPE", "https://graph.microsoft.com/.default"))

\* line 66: "not access_token"
Usable(json) == Truthy(Get(json, "access_token", Null))

\* lines 50-67
GetAccessToken ==
    /\ pc = "token"
    /\ calls' = Append(calls, TokenCall)
    /\ \/ \* requests.post raises (timeout, connection refused)
          /\ Raise("RequestException", "token endpoint unreachable")
          /\ UNCHANGED <<token_resp, token_json, access_token>>
       \/ \E status \in TokenStatuses, json \in TokenBodies :
            LET decoded == Decoded(status, json)
            IN /\ token_resp' = Response(status, json)
               /\ IF ~decoded.ok
                  THEN /\ Raise("HTTPError", IntStr(status))
                       /\ UNCHANGED <<token_json, access_token>>
                  ELSE /\ token_json' = decoded.json
                       /\ IF decoded.json.t # "obj"
                          THEN /\ Raise("AttributeError", "get")
                               /\ UNCHANGED access_token
                          ELSE IF ~Usable(decoded.json)
                          THEN /\ Raise("RuntimeError", "Failed to get access token")
                               /\ UNCHANGED access_token
                          ELSE /\ access_token' =
                                    PyStr(Get(decoded.json, "access_token", Null))
                               /\ pc' = "calendar"
                               /\ error' = error
    /\ UNCHANGED <<env, scheduler, caller, user_email, resp, data, event_list,
                   body, result, response, log>>

CalendarCall ==
    Call("calendar",
         "https://graph.microsoft.com/v1.0/users/" \o user_email
            \o "/calendar/events",
         "Bearer " \o access_token,
         "")

\* line 92 with the test raise_for_status makes
IsErrorStatus_Below600(status) == status >= 400 /\ status < 600

\* line 92
IsErrorStatus(status) == status >= 400

\* lines 77-93; data is kept from here on only where the function goes on
QueryCalendar ==
    /\ pc = "calendar"
    /\ calls' = Append(calls, CalendarCall)
    /\ \/ \* requests.get raises
          /\ Raise("RequestException", "calendar endpoint unreachable")
          /\ UNCHANGED <<resp, data>>
       \/ \E status \in CalendarStatuses, json \in CalendarBodies :
            LET d == Decoded(status, json)
            IN /\ resp' = Response(status, json)
               /\ IF ~d.ok
                  THEN Raise("HTTPError", IntStr(status)) /\ UNCHANGED data
                  ELSE IF IsErrorStatus(status)
                  THEN /\ Raise("RuntimeError", "Graph API error " \o IntStr(status))
                       /\ UNCHANGED data
                  ELSE /\ data' = d.json
                       /\ pc' = "render"
                       /\ error' = error
    /\ UNCHANGED <<env, scheduler, caller, user_email, token_resp,
                   token_json, access_token, event_list, body, result,
                   response, log>>

\* lines 95-131
RenderDigest ==
    /\ pc = "render"
    /\ \E r \in {RenderData(data)} :
          IF ~r.ok
          THEN Raise(r.exc, "event") /\ UNCHANGED <<event_list, body>>
          ELSE /\ event_list' = r.lines
               /\ body' = MakeBody(r.lines)
               /\ pc' = "send"
               /\ error' = error
    /\ UNCHANGED <<env, scheduler, caller, user_email, token_resp,
                   token_json, access_token, resp, data, calls, result,
                   response, log>>

SendCall ==
    Call("send", env["TWILIO_FROM"] \o ">" \o env["TWILIO_TO"],
         env["TWILIO_SID"] \o ":" \o env["TWILIO_TOKEN"], body)

\* lines 133-141
SendMessage ==
    /\ pc = "send"
    /\ calls' = Append(calls, SendCall)
    /\ \/ \* client.messages.create raises
          /\ Raise("TwilioRestException", "message not created")
          /\ UNCHANGED result
       \/ \E sid \in MessageSids :
            /\ result' = [message |-> "WhatsApp notification sent",
                          sid |-> sid, events |-> event_list]
            /\ pc' = "returned"
            /\ error' = error
    /\ UNCHANGED <<env, scheduler, caller, user_email, locals, response, log>>

(***************************************************************************)
(* notify: POST /notify                                                    *)
(***************************************************************************)
\* line 147, the call
notify ==
    /\ pc = "idle"
    /\ scheduler = "running"
    /\ \E email \in RequestEmails : Begin("notify", email)
    /\ UNCHANGED <<env, scheduler>>

\* lines 147-148 with the exception swallowed
notify_return_Swallow ==
    /\ caller = "notify"
    /\ pc \in {"returned", "raised"}
    /\ response' = [kind |-> "returned", result |-> result, error |-> NoError]
    /\ pc' = "idle"
    /\ UNCHANGED <<env, scheduler, caller, user_email, locals, calls, result,
                   error, log>>

\* lines 147-148, after the call: the result is returned, an exception
\* passes through
notify_return ==
    /\ caller = "notify"
    /\ pc \in {"returned", "raised"}
    /\ response' = IF pc = "returned"
                   THEN [kind |-> "returned", result |-> result, error |-> NoError]
                   ELSE [kind |-> "raised", result |-> NoResult, error |-> error]
    /\ pc' = "idle"
    /\ UNCHANGED <<env, scheduler, caller, user_email, locals, calls, result,
                   error, log>>

(***************************************************************************)
(* scheduled_job, fired by the cron trigger at 06:30 IST                   *)
(***************************************************************************)
LogRecord(level, msg) == [level |-> level, msg |-> msg]

\* lines 154-161, up to the call
scheduled_job ==
    /\ pc = "idle"
    /\ scheduler = "running"
    /\ IF ~IsSet("DEFAULT_USER_EMAIL")
       THEN /\ pc' = "idle"
            /\ caller' = "scheduled_job"
            /\ user_email' = ""
            /\ token_resp' = NoAnswer
            /\ token_json' = Unset
            /\ access_token' = ""
            /\ resp' = NoAnswer
            /\ data' = Unset
            /\ event_list' = <<>>
            /\ body' = ""
            /\ calls' = <<>>
            /\ result' = NoResult
            /\ error' = NoError
            /\ log' = <<LogRecord("error",
                          "DEFAULT_USER_EMAIL not set; skipping scheduled job.")>>
            /\ response' = [kind |-> "returned", result |-> NoResult,
                            error |-> NoError]
       ELSE Begin("scheduled_job", env["DEFAULT_USER_EMAIL"])
    /\ UNCHANGED <<env, scheduler>>

\* lines 161-164 without the except clause
scheduled_job_return_NoExcept ==
    /\ caller = "scheduled_job"
    /\ pc \in {"returned", "raised"}
    /\ log' = IF pc = "returned"
              THEN Append(log, LogRecord("info",
                        "Scheduled notify sent: " \o result.sid \o ", events="
                            \o IntStr(Len(result.events))))
              ELSE log
    /\ response' = IF pc = "returned"
                   THEN [kind |-> "returned", result |-> NoResult, error |-> NoError]
                   ELSE [kind |-> "raised", result |-> NoResult, error |-> error]
    /\ pc' = "idle"
    /\ UNCHANGED <<env, scheduler, caller, user_email, locals, calls, result,
                   error>>

\* lines 161-164, after the call; scheduled_job returns None either way
scheduled_job_return ==
    /\ caller = "scheduled_job"
    /\ pc \in {"returned", "raised"}
    /\ log' = IF pc = "returned"
              THEN Append(log, LogRecord("info",
                        "Scheduled notify sent: " \o result.sid \o ", events="
                            \o IntStr(Len(result.events))))
              ELSE Append(log, LogRecord("exception",
                        "Scheduled notify failed: " \o error.msg))
    /\ response' = [kind |-> "returned", result |-> NoResult, error |-> NoError]
    /\ pc' = "idle"
    /\ UNCHANGED <<env, scheduler, caller, user_email, locals, calls, result,
                   error>>

Next ==
    \/ start_scheduler
    \/ shutdown_scheduler
    \/ notify
    \/ ValidateEnv
    \/ GetAccessToken
    \/ QueryCalendar
    \/ RenderDigest
    \/ SendMessage
    \/ notify_return
    \/ scheduled_job
    \/ scheduled_job_return

Spec == Init /\ [][Next]_vars

(***************************************************************************)
(* Properties                                                              *)
(***************************************************************************)
Endpoints == [i \in 1..Len(calls) |-> calls[i].endpoint]
CallsTo(ep) == Cardinality({i \in 1..Len(calls) : calls[i].endpoint = ep})
Order == <<"token", "calendar", "send">>

\* the value is absent from the environment or empty
Unconfigured(k) == k \notin DOMAIN env \/ env[k] = ""

StartsWith(s, p) == Len(s) >= Len(p) /\ SubSeq(s, 1, Len(p)) = p
EndsWith(s, p) == Len(s) >= Len(p) /\ SubSeq(s, Len(s) - Len(p) + 1, Len(s)) = p

\* s.split(sep) for a one-character sep
RECURSIVE Split(_, _)
Split(s, sep) ==
    LET i == IndexOf(s, sep)
    IN IF i = 0 THEN <<s>>
       ELSE <<SubSeq(s, 1, i - 1)>> \o Split(SubSeq(s, i + 1, Len(s)), sep)

\* the calendar body carries a list of events
HasEventList == data.t = "obj" /\ "value" \in DOMAIN data.v
                    /\ data.v["value"].t = "list"
\* the events the calendar query returned
ReturnedEvents == IF HasEventList THEN data.v["value"].v ELSE <<>>

\* what an event contributes to its line, read off the event itself
SubjectOf(e) ==
    IF "subject" \notin DOMAIN e.v THEN "(No subject)"
    ELSE IF e.v["subject"].t = "str" THEN e.v["subject"].v ELSE "None"
StatusOf(e) ==
    IF "responseStatus" \notin DOMAIN e.v THEN "Unknown"
    ELSE e.v["responseStatus"].v["response"].v
\* the event has a start timestamp that is a string
HasRawStart(e) ==
    /\ e.t = "obj" /\ "start" \in DOMAIN e.v
    /\ e.v["start"].t = "obj" /\ "dateTime" \in DOMAIN e.v["start"].v
    /\ e.v["start"].v["dateTime"].t = "str"
RawStart(e) == e.v["start"].v["dateTime"].v
\* ... and it matches none of the accepted formats
Unparsable(e) == HasRawStart(e) /\ ~ParseStart(e.v["start"].v["dateTime"]).ok
\* every member the code dereferences is an object where present
WellFormed(e) ==
    /\ e.t = "obj"
    /\ "start" \in DOMAIN e.v => e.v["start"].t = "obj"
    /\ "responseStatus" \in DOMAIN e.v => e.v["responseStatus"].t = "obj"

\* C1: if a required configuration value is missing or empty, the run ends
\* at the validation with the "Missing environment variables" error, and no
\* request has been sent: no token request, no calendar query, no send.
C1_ConfigErrorBeforeAnyCall ==
    \A k \in RequiredNames :
        (Unconfigured(k) /\ pc \notin {"idle", "validate"}) =>
            /\ pc = "raised"
            /\ error.exc = "RuntimeError"
            /\ error.at = "validate"
            /\ StartsWith(error.msg, "Missing environment variables: ")
            /\ calls = <<>>

C1_Witness ==
    /\ pc = "raised" /\ error.at = "validate" /\ calls = <<>>
    /\ "CLIENT_SECRET" \in DOMAIN env /\ env["CLIENT_SECRET"] = ""
    /\ "TWILIO_TO" \notin DOMAIN env

\* C2: if the calendar query answered with a status >= 400, decodable body
\* or not, the run has failed at the query and no send call is made.
C2_NoSendAfterCalendarError ==
    resp.status_code >= 400 =>
        /\ pc \in {"raised", "idle"}
        /\ error # NoError /\ error.at = "calendar"
        /\ result = NoResult
        /\ CallsTo("send") = 0

C2_Witness ==
    /\ resp.status_code = 600 /\ ~resp.decodable
    /\ pc = "raised" /\ Endpoints = <<"token", "calendar">>

\* the token endpoint returned a non-empty access token
C3_HasToken ==
    /\ token_json.t = "obj" /\ "access_token" \in DOMAIN token_json.v
    /\ token_json.v["access_token"].t = "str"
    /\ token_json.v["access_token"].v # ""

\* C3: the endpoints are called at most once each, in the order token,
\* calendar, send; the calendar is queried only with the non-empty token the
\* token endpoint returned, and without one the run fails at the token step;
\* the send follows a successful query only; a run that returns has called
\* all three.
C3_CallOrder ==
    /\ \E n \in 0..3 : Endpoints = SubSeq(Order, 1, n)
    /\ CallsTo("calendar") > 0 =>
            /\ C3_HasToken
            /\ calls[2].cred = "Bearer " \o token_json.v["access_token"].v
    /\ (CallsTo("token") > 0 /\ ~C3_HasToken) =>
            /\ pc \in {"raised", "idle"}
            /\ error # NoError /\ error.at = "token"
            /\ Endpoints = <<"token">>
    /\ CallsTo("send") > 0 =>
            /\ resp.status_code \in 1..399
            /\ data.t = "obj"
    /\ pc = "returned" => Endpoints = Order

C3_Witness == pc = "returned" /\ Endpoints = Order /\ result.sid = "SM1"

\* scheduled_job ends by returning, a failed run is logged once, and no
\* endpoint is called twice
C4_Returns ==
    caller = "scheduled_job" =>
        /\ response.kind \in {"none", "returned"}
        /\ response.error = NoError
        /\ (pc = "idle" /\ error # NoError) =>
                /\ Len(log) = 1 /\ log[1].level = "exception"
                /\ EndsWith(log[1].msg, error.msg)
        /\ \A ep \in {"token", "calendar", "send"} : CallsTo(ep) <= 1

\* a firing starts the run with nothing kept from the previous invocation
C4_FromScratch ==
    (pc = "idle" /\ caller' = "scheduled_job" /\ pc' = "validate") =>
        /\ user_email' = env["DEFAULT_USER_EMAIL"]
        /\ calls' = <<>> /\ log' = <<>>
        /\ token_resp' = NoAnswer /\ token_json' = Unset /\ access_token' = ""
        /\ resp' = NoAnswer /\ data' = Unset
        /\ event_list' = <<>> /\ body' = ""
        /\ result' = NoResult /\ error' = NoError /\ response' = NoResponse

\* C4: scheduled_job never ends in an exception: a failed run is logged and
\* scheduled_job returns, without a second attempt; and whenever the
\* scheduler is running and idle the job can fire again, and a firing starts
\* the run from scratch whatever the previous invocation left behind.
C4_ScheduledNeverPropagates ==
    /\ [](C4_Returns)
    /\ []((pc = "idle" /\ scheduler = "running") => ENABLED scheduled_job)
    /\ [][C4_FromScratch]_vars

C4_Witness ==
    /\ caller = "scheduled_job" /\ pc = "idle"
    /\ error.exc = "TwilioRestException" /\ response.kind = "returned"
    /\ Len(log) = 1

\* C5: POST /notify performs one run for the identity of the request and
\* ends as the run ended: the run's exception is the caller's exception, the
\* run's result (message, sid, events) is the caller's result.
C5_ManualMirrorsRun ==
    (caller = "notify" /\ pc = "idle") =>
        /\ \A ep \in {"token", "calendar", "send"} : CallsTo(ep) <= 1
        /\ CallsTo("calendar") = 1 =>
                calls[2].url = "https://graph.microsoft.com/v1.0/users/"
                                  \o user_email \o "/calendar/events"
        /\ error # NoError =>
                response = [kind |-> "raised", result |-> NoResult,
                            error |-> error]
        /\ error = NoError =>
                /\ response = [kind |-> "returned", result |-> result,
                               error |-> NoError]
                /\ result.message = "WhatsApp notification sent"
                /\ result.sid \in MessageSids
                /\ result.events = event_list

C5_Witness ==
    /\ caller = "notify" /\ pc = "idle"
    /\ response.kind = "raised" /\ response.error.at = "render"

\* C6: when scheduled_job fires and DEFAULT_USER_EMAIL is absent or empty,
\* it logs an error and returns: no run, no request sent, nothing raised.
C6_SkipWithoutIdentity ==
    (caller = "scheduled_job" /\ Unconfigured("DEFAULT_USER_EMAIL")) =>
        /\ pc = "idle"
        /\ calls = <<>>
        /\ error = NoError
        /\ response = [kind |-> "returned", result |-> NoResult,
                       error |-> NoError]
        /\ Len(log) = 1 /\ log[1].level = "error"

C6_Witness ==
    /\ caller = "scheduled_job"
    /\ "DEFAULT_USER_EMAIL" \in DOMAIN env /\ env["DEFAULT_USER_EMAIL"] = ""
    /\ Len(log) = 1 /\ calls = <<>>

\* C7: notify_user_calendar called with an empty user_email fails with the
\* configuration error before any request is sent.
C7_EmptyIdentityRejected ==
    (caller = "notify" /\ user_email = "" /\ pc \notin {"idle", "validate"}) =>
        /\ pc = "raised"
        /\ error.at = "validate"
        /\ calls = <<>>

\* C8: the body sent is "No meetings scheduled for today." for an empty
\* event list, which is still sent, and otherwise the header followed by one
\* line per returned event, in the order returned; the result's event list
\* has the length and order of the returned events.
C8_BodyFollowsEvents ==
    /\ (HasEventList /\ ReturnedEvents = <<>> /\ pc # "render") =>
            pc = "send" \/ CallsTo("send") = 1
    /\ (pc \in {"returned", "raised"} /\ CallsTo("send") = 1) =>
        LET sent == calls[3].payload
            lines == Split(sent, "\n")
            events == ReturnedEvents
        IN /\ Len(event_list) = Len(events)
           /\ events = <<>> => sent = "No meetings scheduled for today."
           /\ events # <<>> =>
                /\ Len(lines) = Len(events) + 1
                /\ lines[1] = "Today's scheduled meetings:"
                /\ \A i \in 1..Len(events) :
                        /\ lines[i + 1] = event_list[i]
                        /\ StartsWith(lines[i + 1], SubjectOf(events[i]) \o " at ")
                        /\ EndsWith(lines[i + 1],
                                    " - Status: " \o StatusOf(events[i]))
           /\ pc = "returned" => result.events = event_list

C8_Witness ==
    /\ pc = "returned" /\ CallsTo("send") = 1 /\ Len(ReturnedEvents) = 2
    /\ StartsWith(event_list[1], "Lunch at ")
    /\ StartsWith(event_list[2], "Standup at ")

\* the rendering raises only on an event that is not well formed or whose
\* time is out of range, never on an unparsable timestamp
C9_NoRaise ==
    (pc = "raised" /\ error.at = "render" /\ HasEventList) =>
        \E i \in 1..Len(ReturnedEvents) :
            \/ ~WellFormed(ReturnedEvents[i])
            \/ error.exc = "OverflowError"

\* the line of event i shows the raw timestamp
C9_ShowsRaw(i) ==
    event_list[i] = SubjectOf(ReturnedEvents[i]) \o " at "
                        \o RawStart(ReturnedEvents[i])
                        \o " - Status: " \o StatusOf(ReturnedEvents[i])

\* C9 as stated: every event whose start timestamp string matches none of
\* the accepted formats is rendered with the raw string unchanged, without
\* raising, and the run reaches the send step.
C9_RawFallback_Original ==
    /\ C9_NoRaise
    /\ pc = "send" => Len(event_list) = Len(ReturnedEvents)
    /\ pc = "send" =>
        \A i \in 1..Len(ReturnedEvents) :
            Unparsable(ReturnedEvents[i]) => C9_ShowsRaw(i)

\* C9 amended: every event whose start timestamp is a non-empty string that
\* matches none of the accepted formats is rendered with the raw string
\* unchanged; an empty timestamp string is rendered as "Unknown time";
\* neither raises, and the run reaches the send step.
C9_RawFallback ==
    /\ C9_NoRaise
    /\ pc = "send" => Len(event_list) = Len(ReturnedEvents)
    /\ pc = "send" =>
        \A i \in 1..Len(ReturnedEvents) :
            Unparsable(ReturnedEvents[i]) =>
                IF RawStart(ReturnedEvents[i]) # ""
                THEN C9_ShowsRaw(i)
                ELSE event_list[i] = SubjectOf(ReturnedEvents[i])
                        \o " at Unknown time - Status: "
                        \o StatusOf(ReturnedEvents[i])

C9_Witness ==
    /\ pc = "send" /\ Len(ReturnedEvents) = 2
    /\ Unparsable(ReturnedEvents[1]) /\ RawStart(ReturnedEvents[1]) = "tomorrow"
    /\ Unparsable(ReturnedEvents[2]) /\ RawStart(ReturnedEvents[2]) = ""

\* C10 as stated: a calendar answer below 400 whose body cannot be decoded
\* or has no event list does not make the run fail; the "No meetings" body
\* is sent and the result has an empty event list.
C10_NoEventListIsEmptyDay_Original ==
    (resp.status_code \in 1..399 /\ ~HasEventList) =>
        /\ error = NoError
        /\ pc \in {"send", "returned", "idle"} => body = NoMeetings
        /\ pc \in {"returned", "idle"} =>
                /\ calls[3].payload = NoMeetings
                /\ result.events = <<>>

\* C10 amended: a calendar answer below 400 whose body cannot be decoded,
\* or decodes to an object without a "value" member, does not make the
\* retrieval or the rendering fail; send is called with the "No meetings"
\* body, and a run that returns has an empty event list.
C10_NoEventListIsEmptyDay ==
    (/\ resp.status_code \in 1..399
     /\ ~resp.decodable \/ (data.t = "obj" /\ "value" \notin DOMAIN data.v)) =>
        /\ error # NoError => error.at = "send"
        /\ pc # "render" => body = NoMeetings /\ event_list = <<>>
        /\ CallsTo("send") = 1 => calls[3].payload = NoMeetings
        /\ pc \notin {"render", "send"} => CallsTo("send") = 1
        /\ pc = "returned" => result.events = <<>> /\ result.sid \in MessageSids

C10_Witness ==
    /\ resp.status_code = 200 /\ ~resp.decodable
    /\ pc = "returned" /\ result.events = <<>>
    /\ calls[3].payload = "No meetings scheduled for today."

====
